------------------------------ MODULE Spec2Model ------------------------------
(***************************************************************************)
(* Word Peaks agent (package wpa): the scoring oracle (wpa/game.py Game),  *)
(* the candidate tracker and filter (wpa/agents/base.py BaseAgent) and the *)
(* play driver of the deterministic agent (wpa/agents/simple.py).          *)
(*                                                                         *)
(* Representation.  A letter is its character code (ord), 97..122.  A word *)
(* is the sequence of its letter codes.  Python's None is the empty        *)
(* sequence (the code only tests it with `not`, which is also true of the  *)
(* empty string and the empty list).  The outcome values -0.5 / 0.0 / 0.5  *)
(* and every score and reward are kept in units of 0.5, so they are the    *)
(* integers -1 / 0 / 1; a mean is kept doubled (2 * mean), which is an     *)
(* integer for every list of consecutive codes.                            *)
(***************************************************************************)
EXTENDS Integers, Sequences, FiniteSets, TLC

VARIABLES
    answers,      \* Game.answers
    words,        \* Game.words, the allowed guesses
    randomize,    \* Game.randomize
    index,        \* Game.index
    word,         \* Game.word, None when no game is active
    agent_words,  \* BaseAgent.words
    reward,       \* BaseAgent.reward (units of 0.5)
    ranges,       \* BaseAgent.ranges
    means,        \* BaseAgent.means (doubled)
    lengths,      \* BaseAgent.lengths
    po,           \* the frame of a running play_once: its locals and position
    ret,          \* the last completed call: its arguments and what it returned or raised
    rng,          \* RandomAgent.rng, and the record of an earlier run with the same seed
    pl,           \* the frame of a running play: its locals and position
    caller,       \* the lists the caller handed to the constructors
    hist          \* history, read by the properties only: whether start_game has
                  \* run (started) and whether it last ran on a narrowed tracker
                  \* (restart); the positions given a 0 ("correct") outcome since
                  \* it ran (solved), and those before the last apply_guess
                  \* (earlier); whether every apply_guess since it ran had each
                  \* guess letter inside its position's range (fit); the words
                  \* start() activated since construction or the last reset
                  \* (activated); the index the last reset found, -1 before
                  \* any reset (reset_at); the index the last play found
                  \* (play_from)

gameVars  == <<answers, words, randomize, index, word>>
agentVars == <<agent_words, reward, ranges, means, lengths>>
vars      == <<answers, words, randomize, index, word,
               agent_words, reward, ranges, means, lengths, po, ret,
               rng, pl, caller, hist>>
otherVars == <<rng, pl, caller>>

-----------------------------------------------------------------------------
(* Program constants *)

WordLen == 5
Rounds == 6
OrdA == 97
OrdZ == 122
DefaultReward == 10

None == << >>

\* list(range(a, b)): the codes a, a+1, ..., b-1
PyRange(a, b) == IF b > a THEN [k \in 1..(b - a) |-> a + k - 1] ELSE << >>

ALL_LETTERS == PyRange(OrdA, OrdZ + 1)

Positions == 1..WordLen

Abs(x) == IF x < 0 THEN -x ELSE x

RECURSIVE SumUpTo(_, _)
SumUpTo(s, n) == IF n = 0 THEN 0 ELSE SumUpTo(s, n - 1) + s[n]

\* sum(s)
SumSeq(s) == SumUpTo(s, Len(s))

\* statistics.mean(r), doubled; the caller guards r # << >>
Mean2(r) == (2 * SumSeq(r)) \div Len(r)

SeqSet(s) == {s[k] : k \in 1..Len(s)}

-----------------------------------------------------------------------------
(* Words the model draws its word lists from *)

w_alert == <<97, 108, 101, 114, 116>>
w_clerk == <<99, 108, 101, 114, 107>>
w_mango == <<109, 97, 110, 103, 111>>
w_lint  == <<108, 105, 110, 116>>

Universe == {w_alert, w_clerk, w_mango}

\* a word whose score equals that of alert while the whole alphabet is open
w_blest == <<98, 108, 101, 115, 116>>

\* a list long enough for a game to go through all six rounds
w_eight == <<101, 105, 103, 104, 116>>
w_fight == <<102, 105, 103, 104, 116>>
w_light == <<108, 105, 103, 104, 116>>
w_might == <<109, 105, 103, 104, 116>>
w_night == <<110, 105, 103, 104, 116>>
w_right == <<114, 105, 103, 104, 116>>
w_sight == <<115, 105, 103, 104, 116>>
w_sighs == <<115, 105, 103, 104, 115>>
w_babes == <<98, 97, 98, 101, 115>>
w_cages == <<99, 97, 103, 101, 115>>
w_dales == <<100, 97, 108, 101, 115>>
w_fames == <<102, 97, 109, 101, 115>>
w_gapes == <<103, 97, 112, 101, 115>>
w_hares == <<104, 97, 114, 101, 115>>
w_mates == <<109, 97, 116, 101, 115>>

NightWords ==
    <<w_night, w_eight, w_sight, w_fight, w_right, w_light, w_might, w_sighs,
      w_hares, w_babes, w_mates, w_cages, w_gapes, w_dales, w_fames>>
NightAnswers == <<w_eight, w_might, w_babes>>

MaxWords == 3
MaxAnswers == 2
MaxDraws == 18
MaxPlays == 3
MaxOps == 5
ShuffleAll == 4

SeqsUpTo(S, n) == UNION {[1..k -> S] : k \in 0..n}

\* the orders random.shuffle can leave a list in
Shuffles(s) ==
    {t \in [1..Len(s) -> SeqSet(s)] :
        \E p \in [1..Len(s) -> 1..Len(s)] :
            /\ \A a, b \in 1..Len(s) : a # b => p[a] # p[b]
            /\ \A a \in 1..Len(s) : t[a] = s[p[a]]}

\* some of the orders random.shuffle can leave a long list in
Rotations(s) ==
    {[a \in 1..Len(s) |-> s[((a + k - 1) % Len(s)) + 1]] : k \in 0..(Len(s) - 1)}

\* the orders the model lets random.shuffle leave a list in: all of them for
\* a short list
Shuffled(s) == IF Len(s) <= ShuffleAll THEN Shuffles(s) ELSE Rotations(s)

-----------------------------------------------------------------------------
(* Game (wpa/game.py) *)

\* a comparison that reports one direction only
ScoreLetterOneWay(c, g) == IF c < g THEN -1 ELSE 0

\* the comparison loop of score_guess, one position
ScoreLetter(c, g) == IF c < g THEN -1 ELSE IF c > g THEN 1 ELSE 0

\* rtn after the loop over enumerate(self.word); the caller guards Len(w) <= 5
ScoreLoop(w, guess) ==
    [i \in Positions |-> IF i <= Len(w) THEN ScoreLetter(w[i], guess[i]) ELSE 0]

AllCorrect(rtn) == SumSeq([i \in 1..Len(rtn) |-> Abs(rtn[i])]) = 0

\* score_guess without the check against the allowed list
ScoreGuessErrorNoMembership(w, ws, guess) ==
    IF w = None THEN "no active word"
    ELSE IF Len(guess) # WordLen THEN "not 5 letters"
    ELSE ""

\* which of the three checks of score_guess raises, "" when none does
ScoreGuessError(w, ws, guess) ==
    IF w = None THEN "no active word"
    ELSE IF Len(guess) # WordLen THEN "not 5 letters"
    ELSE IF guess \notin SeqSet(ws) THEN "not an allowed guess"
    ELSE ""

\* score_guess that leaves the playing state after every guess
WordAfterScoreCleared(w, rtn) == None

\* score_guess that never leaves the playing state
WordAfterScoreKept(w, rtn) == w

\* self.word after score_guess returned rtn
WordAfterScore(w, rtn) == IF AllCorrect(rtn) THEN None ELSE w

\* rng with one more call in the record of the calls made on a RandomAgent
\* and its oracle, kept where a second agent is to be given the same calls
Called(op) ==
    IF rng.run = 0 \/ ~rng.twin THEN rng ELSE [rng EXCEPT !.ops = Append(@, op)]

\* the state Game.__init__ leaves, given lists over the words U
GameInit(U) ==
    /\ randomize \in BOOLEAN
    /\ words \in SeqsUpTo(U, MaxWords)
    /\ \E given \in SeqsUpTo(Universe, MaxAnswers) :
          answers \in (IF randomize THEN Shuffles(given) ELSE {given})
    /\ index = 0
    /\ word = None

\* start() that activates the next word and forgets to advance the index
StartNoAdvance ==
    /\ po.pc = "idle"
    /\ IF index = Len(answers)
       THEN /\ ret' = [op |-> "start", val |-> FALSE]
            /\ UNCHANGED <<index, word, hist>>
       ELSE /\ word' = answers[index + 1]
            /\ index' = index
            /\ ret' = [op |-> "start", val |-> TRUE]
            /\ hist' = [hist EXCEPT !.activated = Append(@, word')]
    /\ rng' = Called("start")
    /\ UNCHANGED <<answers, words, randomize>>
    /\ UNCHANGED <<agentVars, po, pl, caller>>

Start ==
    /\ po.pc = "idle"
    /\ IF index = Len(answers)
       THEN /\ ret' = [op |-> "start", val |-> FALSE]
            /\ UNCHANGED <<index, word, hist>>
       ELSE /\ word' = answers[index + 1]
            /\ index' = index + 1
            /\ ret' = [op |-> "start", val |-> TRUE]
            /\ hist' = [hist EXCEPT !.activated = Append(@, word')]
    /\ rng' = Called("start")
    /\ UNCHANGED <<answers, words, randomize>>
    /\ UNCHANGED <<agentVars, po, pl, caller>>

ScoreGuess(guess) ==
    LET err == ScoreGuessError(word, words, guess)
        rtn == ScoreLoop(word, guess)
    IN  /\ po.pc = "idle"
        /\ IF err # ""
           THEN /\ ret' = [op |-> "score_guess", guess |-> guess, raised |-> err]
                /\ UNCHANGED word
           ELSE /\ word' = WordAfterScore(word, rtn)
                /\ ret' = [op |-> "score_guess", guess |-> guess, raised |-> "",
                           val |-> rtn, secret |-> word]
        /\ UNCHANGED <<answers, words, randomize, index>>
        /\ UNCHANGED <<agentVars, po, hist, otherVars>>

\* reset() that rewinds the index and leaves the active word in place
GameResetKeepsWord ==
    /\ po.pc = "idle"
    /\ index' = 0
    /\ word' = word
    /\ answers' \in (IF randomize THEN Shuffles(answers) ELSE {answers})
    /\ ret' = [op |-> "reset"]
    /\ hist' = [hist EXCEPT !.activated = << >>, !.reset_at = index]
    /\ UNCHANGED <<words, randomize>>
    /\ UNCHANGED <<agentVars, po, otherVars>>

GameReset ==
    /\ po.pc = "idle"
    /\ index' = 0
    /\ word' = None
    /\ answers' \in (IF randomize THEN Shuffles(answers) ELSE {answers})
    /\ ret' = [op |-> "reset"]
    /\ hist' = [hist EXCEPT !.activated = << >>, !.reset_at = index]
    /\ UNCHANGED <<words, randomize>>
    /\ UNCHANGED <<agentVars, po, otherVars>>

-----------------------------------------------------------------------------
(* BaseAgent (wpa/agents/base.py) *)

NoRanges == [i \in Positions |-> None]
Zeros    == [i \in Positions |-> 0]

\* the state __init__ leaves, for a game whose allowed list is ws and no
\* `words` override: a shuffled copy of game.words
AgentInit ==
    /\ agent_words \in Shuffles(words)
    /\ reward = DefaultReward
    /\ ranges = NoRanges
    /\ means = Zeros
    /\ lengths = Zeros

\* no RandomAgent, no play running, no list handed over
NoRng == [run |-> 0]
IdlePlay == [pc |-> "idle"]
NoCaller == [built |-> "none"]

\* Lists as objects.  A list is an object of the heap h: h.val gives the
\* content of each object, named by the place that creates it, and h.ref the
\* object each variable of the program refers to.  Only a SpecAlias run keeps
\* a heap (caller.built is "none" elsewhere).
Names ==
    {"c.answers", "c.words", "c.override", "c.returned", "g.answers", "g.words",
     "a.words", "po.words", "ag.words_in", "ag.words"}

Sites ==
    {"caller.answers", "caller.words", "caller.override", "caller.returned",
     "Game.answers", "Game.words", "Agent.words", "play_once.words",
     "apply_guess.copy", "apply_guess.filtered"}

Unbound == "unbound"

\* the content of the list a variable refers to
Deref(h, name) == h.val[h.ref[name]]

\* dst = src: one more reference to the same list
Bind(h, dst, src) == [h EXCEPT !.ref[dst] = h.ref[src]]

\* dst = a list newly created at site, holding s
New(h, dst, site, s) ==
    [ref |-> [h.ref EXCEPT ![dst] = site], val |-> [h.val EXCEPT ![site] = s]]

\* an assignment where the code copies: dst = src
CopyAliased(h, dst, site, src) == Bind(h, dst, src)

\* dst = src.copy()
Copy(h, dst, site, src) == New(h, dst, site, Deref(h, src))

\* a change of a list in place (shuffle, remove), seen through every
\* reference to it
InPlace(h, name, s) == [h EXCEPT !.val[h.ref[name]] = s]

\* the locals of apply_guess go out of scope
Drop(h) ==
    [ref |-> [n \in Names |->
                 IF n \in {"ag.words_in", "ag.words"} THEN Unbound ELSE h.ref[n]],
     val |-> [x \in Sites |->
                 IF x \in {"apply_guess.copy", "apply_guess.filtered"}
                 THEN << >> ELSE h.val[x]]]

\* apply_guess(src, ...) returning the list val, which the caller binds to dst
\* (lines 108, 135, 140 and the return): the heap it leaves, and the content
\* of the list it was given as that list is when it returns
HeapApplyGuess(h, src, val, dst, site) ==
    LET h1 == Bind(h, "ag.words_in", src)
        h2 == Copy(h1, "ag.words", "apply_guess.copy", "ag.words_in")
        h3 == New(h2, "ag.words", "apply_guess.filtered", val)
        h4 == InPlace(h3, "ag.words", val)
    IN  [h |-> Drop(New(h4, dst, site, Deref(h4, "ag.words"))),
         in_after |-> Deref(h4, "ag.words_in")]

\* caller after an apply_guess of play_once that returned ag
AfterApplyGuess(ag) ==
    IF caller.built = "none" \/ ag.t.raised # "" THEN caller
    ELSE LET r == HeapApplyGuess(caller.h, "po.words", ag.val,
                                 "po.words", "play_once.words")
         IN  [caller EXCEPT !.h = r.h, !.in_after = r.in_after]

\* caller after words = self.words.copy() of play_once (line 63)
AfterPlayOnceCopy ==
    IF caller.built = "none" THEN caller
    ELSE [caller EXCEPT !.h = Copy(@, "po.words", "play_once.words", "a.words"),
                        !.entry = Deref(caller.h, "a.words")]

\* caller after the shuffles of BaseAgent.reset and Game.reset left the
\* lists mine and theirs
AfterShuffles(mine, theirs) ==
    IF caller.built = "none" THEN caller
    ELSE [caller EXCEPT !.h = InPlace(InPlace(@, "a.words", mine),
                                      "g.answers", theirs)]

NoHistory ==
    [started |-> FALSE, restart |-> FALSE, solved |-> {}, earlier |-> {}, fit |-> FALSE,
     activated |-> << >>, reset_at |-> -1, play_from |-> -1, entry |-> << >>]

\* some position's range is not the whole alphabet
Narrowed == \E i \in Positions : ranges[i] # ALL_LETTERS /\ ranges[i] # None

\* every letter of the guess lies in its position's range
Fits(rs, guess) == \A i \in 1..Len(guess) : guess[i] \in SeqSet(rs[i])

\* the tracker as a record, threaded through the loop of apply_guess
Tracker ==
    [ranges |-> ranges, means |-> means, lengths |-> lengths, raised |-> "", stop |-> 0]

\* start_game that resets the ranges and forgets the derived means
StartGameStateStaleMeans ==
    [ranges  |-> [i \in Positions |-> ALL_LETTERS],
     means   |-> means,
     lengths |-> [i \in Positions |-> 26],
     raised  |-> "",
     stop    |-> 0]

\* start_game: every position back to the whole alphabet
StartGameState ==
    [ranges  |-> [i \in Positions |-> ALL_LETTERS],
     means   |-> [i \in Positions |-> Mean2(ALL_LETTERS)],
     lengths |-> [i \in Positions |-> 26],
     raised  |-> "",
     stop    |-> 0]

\* apply_guess that takes the alphabet's ends instead of the range's
NewRangeFromAlphabet(r, cv, sc) ==
    IF sc > 0 THEN PyRange(OrdA, cv)
    ELSE IF sc < 0 THEN PyRange(cv + 1, OrdZ + 1)
    ELSE <<cv>>

\* the new range of one position (lines 117-128); r is the current range,
\* read only when the score is not 0 (the caller guards r # << >> then)
NewRange(r, cv, sc) ==
    IF sc > 0 THEN PyRange(r[1], cv)
    ELSE IF sc < 0 THEN PyRange(cv + 1, r[Len(r)] + 1)
    ELSE <<cv>>

\* one iteration of the loop over enumerate(guess), for a position whose
\* range is r.  Reading ranges[i][0] of an empty (or None) range raises before
\* anything is assigned; mean() of an empty list raises after ranges[i] and
\* lengths[i] were assigned.
PositionStep(r, cv, sc) ==
    IF sc # 0 /\ r = << >>
    THEN [raised |-> "IndexError", assigned |-> FALSE, range |-> r]
    ELSE [raised |-> IF NewRange(r, cv, sc) = << >> THEN "StatisticsError" ELSE "",
          assigned |-> TRUE, range |-> NewRange(r, cv, sc)]

\* the loop over enumerate(guess).  Iteration i reads and writes position i
\* only, so the loop is its iterations up to and including the first that
\* raises; the positions after it keep what they had.
ApplyRanges(t, guess, score) ==
    LET n    == Len(guess)
        step == [i \in 1..n |-> PositionStep(t.ranges[i], guess[i], score[i])]
        bad  == {i \in 1..n : step[i].raised # ""}
        stop == IF bad = {} THEN n + 1 ELSE CHOOSE i \in bad : \A j \in bad : i <= j
        done(i) == i <= n /\ i <= stop /\ step[i].assigned
    IN  [ranges  |-> [i \in Positions |->
                        IF done(i) THEN step[i].range ELSE t.ranges[i]],
         lengths |-> [i \in Positions |->
                        IF done(i) THEN Len(step[i].range) ELSE t.lengths[i]],
         means   |-> [i \in Positions |->
                        IF done(i) /\ step[i].raised = ""
                        THEN Mean2(step[i].range) ELSE t.means[i]],
         raised  |-> IF bad = {} THEN "" ELSE step[stop].raised,
         stop    |-> stop]

\* create_re_pattern: one piece per position, a literal or a class [a-b];
\* "" stands for the IndexError of reading an empty range
Piece(r, n) ==
    IF r = << >> THEN [kind |-> "IndexError"]
    ELSE IF n = 1 THEN [kind |-> "literal", ch |-> r[1]]
    ELSE [kind |-> "class", a |-> r[1], b |-> r[Len(r)]]

CreateRePattern(t) == [i \in Positions |-> Piece(t.ranges[i], t.lengths[i])]

PatternRaises(pat) == \E i \in Positions : pat[i].kind = "IndexError"

PieceMatches(pc, c) ==
    IF pc.kind = "literal" THEN c = pc.ch ELSE pc.a <= c /\ c <= pc.b

\* re.search(^p1p2p3p4p5$, x)
Matches(pat, x) ==
    /\ Len(x) = Len(pat)
    /\ \A i \in 1..Len(pat) : PieceMatches(pat[i], x[i])

RECURSIVE FilterWords(_, _)
FilterWords(pat, ws) ==
    IF ws = << >> THEN << >>
    ELSE IF Matches(pat, Head(ws)) THEN <<Head(ws)>> \o FilterWords(pat, Tail(ws))
    ELSE FilterWords(pat, Tail(ws))

\* list.remove(x) inside try/except: drops the first occurrence, if any
RECURSIVE RemoveFirst(_, _)
RemoveFirst(ws, x) ==
    IF ws = << >> THEN << >>
    ELSE IF Head(ws) = x THEN Tail(ws)
    ELSE <<Head(ws)>> \o RemoveFirst(Tail(ws), x)

\* apply_guess as a whole: the tracker it leaves and the list it returns
ApplyGuessResult(t, words_in, guess, score) ==
    LET t1  == ApplyRanges(t, guess, score)
        pat == CreateRePattern(t1)
    IN  IF t1.raised # "" THEN [t |-> t1, val |-> << >>]
        ELSE IF PatternRaises(pat)
             THEN [t |-> [t1 EXCEPT !.raised = "IndexError"], val |-> << >>]
        ELSE [t |-> t1, val |-> RemoveFirst(FilterWords(pat, words_in), guess)]

\* start_game called on its own
StartGame ==
    /\ po.pc = "idle"
    /\ ranges' = StartGameState.ranges
    /\ means' = StartGameState.means
    /\ lengths' = StartGameState.lengths
    /\ ret' = [op |-> "start_game"]
    /\ hist' = [hist EXCEPT !.started = TRUE, !.restart = Narrowed,
                             !.solved = {}, !.earlier = {}, !.fit = TRUE]
    /\ UNCHANGED <<gameVars, agent_words, reward, po, otherVars>>

\* the positions a call of apply_guess gave a 0 outcome (its loop got to them)
Solved(t1, guess, score) == {i \in 1..Len(guess) : score[i] = 0 /\ i <= t1.stop}

\* apply_guess called on its own
ApplyGuess(words_in, guess, score) ==
    \E ag \in {ApplyGuessResult(Tracker, words_in, guess, score)} :
        /\ po.pc = "idle"
        /\ ranges' = ag.t.ranges
        /\ means' = ag.t.means
        /\ lengths' = ag.t.lengths
        /\ ret' = [op |-> "apply_guess", words_in |-> words_in, guess |-> guess,
                   raised |-> ag.t.raised, val |-> ag.val]
        /\ hist' = [hist EXCEPT !.restart = FALSE,
                                 !.solved = @ \cup Solved(ag.t, guess, score),
                                 !.earlier = hist.solved,
                                 !.fit = @ /\ Fits(ranges, guess)]
        /\ UNCHANGED <<gameVars, agent_words, reward, po, otherVars>>

-----------------------------------------------------------------------------
(* SimpleAgent (wpa/agents/simple.py) *)

RECURSIVE ProductUpTo(_, _)
ProductUpTo(s, n) == IF n = 0 THEN 1 ELSE ProductUpTo(s, n - 1) * s[n]

Product(s) == ProductUpTo(s, Len(s))

\* score(word) is -Distance / (2 * lengths[1] * ... * lengths[5]): the sum of
\* |means[i] - ord(c)| / lengths[i] over one common denominator, so that two
\* scores compare exactly.  The code adds floats.  Two scores that differ
\* differ by at least 1 / (2 * 26^5), far more than the rounding of five
\* additions, so the floats order as the exact scores do.
\* lengths[i] >= 1 wherever this is evaluated.
Distance(t, w) ==
    SumSeq([i \in 1..Len(w) |->
              Abs(t.means[i] - 2 * w[i])
              * Product([j \in Positions |-> IF j = i THEN 1 ELSE t.lengths[j]])])

\* v and w have the same distance from the mean at every position: score
\* then does the same float operations on the same values for both, and
\* returns the same float
SameTerms(t, v, w) ==
    /\ Len(v) = Len(w)
    /\ \A i \in 1..Len(v) : Abs(t.means[i] - 2 * v[i]) = Abs(t.means[i] - 2 * w[i])

\* select_guess that takes the last of the words with the best score
SelectIndexesLast(t, guesses) ==
    {k \in 1..Len(guesses) :
        /\ \A j \in 1..Len(guesses) : Distance(t, guesses[k]) <= Distance(t, guesses[j])
        /\ \A j \in (k + 1)..Len(guesses) : ~SameTerms(t, guesses[j], guesses[k])}

\* select_guess: sort by score, descending and stable, and take the first.
\* The index of the word returned: a word of the greatest exact score, and
\* the first of the words whose floats are certainly equal to its own.
\* Between words whose exact scores are equal and whose terms differ, the
\* rounding of the float sums decides; each outcome is kept.
SelectIndexes(t, guesses) ==
    {k \in 1..Len(guesses) :
        /\ \A j \in 1..Len(guesses) : Distance(t, guesses[k]) <= Distance(t, guesses[j])
        /\ \A j \in 1..(k - 1) : ~SameTerms(t, guesses[j], guesses[k])}

\* what select_guess raises, "" when it returns: 1 / lengths[i] in score
\* while the list is built, then weighted[0] of an empty list
SelectRaises(t, guesses) ==
    IF \E k \in 1..Len(guesses) : \E i \in 1..Len(guesses[k]) : t.lengths[i] = 0
    THEN "ZeroDivisionError"
    ELSE IF guesses = << >> THEN "IndexError"
    ELSE ""

\* select_guess called on its own
SelectGuess(guesses) ==
    /\ po.pc = "idle"
    /\ IF SelectRaises(Tracker, guesses) # ""
       THEN ret' = [op |-> "select_guess", guesses |-> guesses, after |-> guesses,
                    raised |-> SelectRaises(Tracker, guesses)]
       ELSE \E k \in SelectIndexes(Tracker, guesses) :
               ret' = [op |-> "select_guess", guesses |-> guesses, after |-> guesses,
                       raised |-> "", val |-> guesses[k]]
    /\ UNCHANGED <<gameVars, agentVars, po, hist, otherVars>>

\* wherever play_once selects over the lists of the model, one word has the
\* best exact score, so that rounding decides nothing
ExactTiesAreSameWord ==
    (po.pc = "loop" /\ po.words # << >> /\ rng.run = 0) =>
        \A j, k \in SelectIndexes(Tracker, po.words) : po.words[j] = po.words[k]

-----------------------------------------------------------------------------
(* RandomAgent (wpa/agents/random.py) *)

\* rng while a RandomAgent plays: run is 1, or 2 for a second agent built
\* with the same seed; seeded says the generator is still on the stream of
\* the constructor's seed; log is what this agent drew (the length of the
\* list, the index chosen, the word); first is the log of run 1.
\* twin says a second agent follows; ops is then the calls made on this
\* agent and its oracle, first_ops those of run 1.
SeededRng ==
    [run |-> 1, seeded |-> TRUE, log |-> << >>, first |-> << >>,
     twin |-> FALSE, ops |-> << >>, first_ops |-> << >>]

\* the next draw repeats the draw run 1 made at the same place of the same
\* stream: both generators on the seed's stream, the same draws before, and
\* a list of the same length
Replays(n) ==
    /\ rng.run = 2
    /\ rng.seeded
    /\ Len(rng.log) < Len(rng.first)
    /\ rng.first[Len(rng.log) + 1].seeded
    /\ rng.first[Len(rng.log) + 1].n = n

\* rng.choice(guesses), Len(guesses) = n: the indices it may return
DrawChoices(n) ==
    IF Replays(n) THEN {rng.first[Len(rng.log) + 1].i} ELSE 1..n

\* rng after choice returned guesses[i]: a draw that leaves the stream of
\* run 1 is not on it afterwards
AfterDraw(n, i, guess) ==
    [rng EXCEPT !.log = Append(@, [n |-> n, i |-> i, guess |-> guess,
                                   seeded |-> rng.seeded]),
                !.seeded = @ /\ (rng.run = 1 \/ Replays(n))]

-----------------------------------------------------------------------------
(* SimpleAgent.play_once (wpa/agents/simple.py), inherited by RandomAgent *)

EmptyResult ==
    [guesses |-> << >>, responses |-> << >>, word |-> None, result |-> 0, score |-> 0]

IdleFrame == [pc |-> "idle", words |-> << >>, result |-> EmptyResult, round |-> 0]

\* the sum of the outcome as the oracle returned it, signs kept
ScoreSumSigned(raw) == SumSeq(raw)

\* sum(score), score = list(map(neg, map(abs, raw_score)))
ScoreSum(raw) == -SumSeq([i \in 1..Len(raw) |-> Abs(raw[i])])

\* play_once, lines 62-68: the local copy of the word list, the empty result
\* and start_game
PlayOnceBegin ==
    /\ po.pc = "idle"
    /\ po' = [pc |-> "loop", words |-> agent_words, result |-> EmptyResult, round |-> 0]
    /\ ranges' = StartGameState.ranges
    /\ means' = StartGameState.means
    /\ lengths' = StartGameState.lengths
    /\ ret' = [op |-> "start_game"]
    /\ hist' = [hist EXCEPT !.started = TRUE, !.restart = Narrowed,
                             !.solved = {}, !.earlier = {}, !.fit = TRUE,
                             !.entry = word]
    /\ rng' = Called("play_once")
    /\ caller' = AfterPlayOnceCopy
    /\ UNCHANGED <<gameVars, agent_words, reward, pl>>

\* play_once, one iteration of the loop (lines 70-95).  select_guess is
\* SimpleAgent's, or RandomAgent's (rng.choice) when random is TRUE.
PlayOnceRoundOf(random) ==
    /\ po.pc = "loop"
    /\ random <=> rng.run # 0
    /\ UNCHANGED <<answers, words, randomize, index, agent_words, reward>>
    /\ UNCHANGED pl
    /\ IF po.words = << >>
       THEN \* weighted[0], or rng.choice, of an empty list
            /\ po' = [po EXCEPT !.pc = "raised"]
            /\ ret' = [op |-> "select_guess", raised |-> "IndexError"]
            /\ UNCHANGED <<word, ranges, means, lengths, hist, rng, caller>>
       ELSE
       \E i \in (IF random THEN DrawChoices(Len(po.words))
                           ELSE SelectIndexes(Tracker, po.words)) :
       LET guess == po.words[i]
           err   == ScoreGuessError(word, words, guess)
           raw   == ScoreLoop(word, guess)
           sum   == ScoreSum(raw)
           res   == [po.result EXCEPT !.responses = Append(@, raw),
                                      !.guesses = Append(@, <<guess, sum>>),
                                      !.score = @ + sum]
       IN  /\ rng' = IF random THEN AfterDraw(Len(po.words), i, guess) ELSE rng
           /\ caller' = IF err = "" /\ sum # 0
                         THEN AfterApplyGuess(ApplyGuessResult(Tracker, po.words,
                                                               guess, raw))
                         ELSE caller
           /\ IF err # ""
              THEN /\ po' = [po EXCEPT !.pc = "raised"]
                   /\ ret' = [op |-> "score_guess", guess |-> guess, raised |-> err]
                   /\ UNCHANGED <<word, ranges, means, lengths, hist>>
              ELSE /\ word' = WordAfterScore(word, raw)
                   /\ IF sum = 0
                      THEN /\ po' = [po EXCEPT !.pc = "after",
                                               !.result = [res EXCEPT !.result = 1,
                                                                      !.word = guess,
                                                                      !.score = @ + reward]]
                           /\ ret' = [op |-> "score_guess", guess |-> guess, raised |-> "",
                                      val |-> raw, secret |-> word]
                           /\ UNCHANGED <<ranges, means, lengths, hist>>
                      ELSE \E ag \in {ApplyGuessResult(Tracker, po.words, guess, raw)} :
                           /\ ranges' = ag.t.ranges
                           /\ means' = ag.t.means
                           /\ lengths' = ag.t.lengths
                           /\ hist' = [hist EXCEPT !.restart = FALSE,
                                            !.solved = @ \cup Solved(ag.t, guess, raw),
                                            !.earlier = hist.solved,
                                            !.fit = @ /\ Fits(ranges, guess)]
                           /\ ret' = [op |-> "apply_guess", words_in |-> po.words,
                                      guess |-> guess,
                                      raised |-> ag.t.raised, val |-> ag.val]
                           /\ IF ag.t.raised # ""
                              THEN po' = [po EXCEPT !.pc = "raised", !.result = res]
                              ELSE po' = [po EXCEPT
                                               !.pc = IF po.round + 1 = Rounds
                                                      THEN "after" ELSE "loop",
                                               !.words = ag.val,
                                               !.result = res,
                                               !.round = @ + 1]

\* SimpleAgent.play_once, one iteration
PlayOnceRound == PlayOnceRoundOf(FALSE)

\* play_once that returns the result as the loop left it
PlayOnceEndAsLeft ==
    /\ po.pc = "after"
    /\ ret' = [op |-> "play_once", raised |-> "", val |-> po.result]
    /\ po' = IdleFrame
    /\ UNCHANGED <<gameVars, agentVars, hist, otherVars>>

\* play_once, lines 97-102: the loss path and the return
PlayOnceEnd ==
    /\ po.pc = "after"
    /\ LET res == IF po.result.word = None
                  THEN [po.result EXCEPT !.word = word] ELSE po.result
       IN  ret' = [op |-> "play_once", raised |-> "", val |-> res]
    /\ po' = IdleFrame
    /\ UNCHANGED <<gameVars, agentVars, hist, otherVars>>

-----------------------------------------------------------------------------
(* BaseAgent.play and BaseAgent.reset (wpa/agents/base.py) *)

\* a quotient a / b, kept as the pair
Quotient(a, b) == [num |-> a, den |-> b]

\* what play returns for a non-empty history (lines 172-192)
PlayReturn(history) ==
    LET count == Len(history)
        result_total == SumSeq([j \in 1..count |-> history[j].result])
        guess_total  == SumSeq([j \in 1..count |-> Len(history[j].guesses)])
        score_total  == SumSeq([j \in 1..count |-> history[j].score])
    IN  [history   |-> history,
         count     |-> count,
         guess_avg |-> Quotient(guess_total, count),
         score_avg |-> Quotient(score_total, count),
         result    |-> Quotient(result_total, count)]

\* the end of play (lines 172-192): result_total / count divides by zero when
\* no game was played
PlayFinish ==
    IF pl.history = << >>
    THEN /\ pl' = [pl EXCEPT !.pc = "raised"]
         /\ ret' = [op |-> "play", n |-> pl.n, raised |-> "ZeroDivisionError"]
    ELSE /\ pl' = IdlePlay
         /\ ret' = [op |-> "play", n |-> pl.n, raised |-> "",
                    val |-> PlayReturn(pl.history)]

\* play(n), lines 162-163
PlayBegin(n) ==
    /\ pl.pc = "idle"
    /\ po.pc = "idle"
    /\ rng.run # 0 => Len(rng.log) + Rounds * Len(answers) <= MaxDraws
    /\ pl' = [pc |-> "loop", n |-> n, history |-> << >>, count |-> 0]
    /\ hist' = [hist EXCEPT !.play_from = index]
    /\ ret' = [op |-> "play_begin", n |-> n]
    /\ UNCHANGED <<gameVars, agentVars, po, rng, caller>>

\* play, one test of the while condition (lines 165-170): game.start(), the
\* count, the test of n, and the entry into play_once
PlayLoop ==
    /\ pl.pc = "loop"
    /\ po.pc = "idle"
    /\ UNCHANGED <<answers, words, randomize, agent_words, reward, rng, caller>>
    /\ IF index = Len(answers)
       THEN /\ PlayFinish
            /\ UNCHANGED <<index, word, ranges, means, lengths, po, hist>>
       ELSE /\ word' = answers[index + 1]
            /\ index' = index + 1
            /\ IF pl.n # 0 /\ pl.n < pl.count + 1
               THEN /\ PlayFinish
                    /\ hist' = [hist EXCEPT !.activated = Append(@, word')]
                    /\ UNCHANGED <<ranges, means, lengths, po>>
               ELSE /\ pl' = [pl EXCEPT !.pc = "game", !.count = @ + 1]
                    /\ po' = [pc |-> "loop", words |-> agent_words,
                              result |-> EmptyResult, round |-> 0]
                    /\ ranges' = StartGameState.ranges
                    /\ means' = StartGameState.means
                    /\ lengths' = StartGameState.lengths
                    /\ ret' = [op |-> "start_game"]
                    /\ hist' = [hist EXCEPT !.activated = Append(@, word'),
                                            !.started = TRUE, !.restart = Narrowed,
                                            !.solved = {}, !.earlier = {}, !.fit = TRUE,
                                            !.entry = word']

\* play, line 170: the result of play_once goes to the history
PlayAppend ==
    /\ pl.pc = "game"
    /\ po.pc = "idle"
    /\ pl' = [pl EXCEPT !.pc = "loop", !.history = Append(@, ret.val)]
    /\ ret' = [op |-> "append"]
    /\ UNCHANGED <<gameVars, agentVars, po, rng, caller, hist>>

\* BaseAgent.reset, and RandomAgent.reset which also calls rng.seed()
AgentReset ==
    /\ pl.pc = "idle"
    /\ po.pc = "idle"
    /\ agent_words' \in Shuffled(agent_words)
    /\ index' = 0
    /\ word' = None
    /\ answers' \in (IF randomize THEN Shuffles(answers) ELSE {answers})
    /\ rng' = IF rng.run = 0 THEN rng
               ELSE [Called("reset") EXCEPT !.seeded = FALSE]
    /\ ret' = [op |-> "agent_reset"]
    /\ hist' = [hist EXCEPT !.activated = << >>, !.reset_at = index]
    /\ caller' = AfterShuffles(agent_words', answers')
    /\ UNCHANGED <<words, randomize, reward, ranges, means, lengths, po, pl>>

-----------------------------------------------------------------------------
(* Specifications *)

\* the agent playing against the oracle
Init ==
    /\ GameInit(Universe)
    /\ AgentInit
    /\ po = IdleFrame
    /\ ret = [op |-> "init"]
    /\ hist = NoHistory
    /\ rng = NoRng
    /\ pl = IdlePlay
    /\ caller = NoCaller

Next ==
    \/ Start
    \/ PlayOnceBegin
    \/ PlayOnceRound
    \/ PlayOnceEnd

Spec == Init /\ [][Next]_vars

\* a RandomAgent playing against the oracle, over a list that lets a game
\* last six rounds
RandomPlayOnceBegin ==
    /\ Len(rng.log) + Rounds <= MaxDraws
    /\ PlayOnceBegin

RandomPlayOnceRound == PlayOnceRoundOf(TRUE)

RandomInit ==
    /\ randomize = FALSE
    /\ words = NightWords
    /\ answers = NightAnswers
    /\ index = 0
    /\ word = None
    /\ agent_words \in Rotations(words)
    /\ reward = DefaultReward
    /\ ranges = NoRanges
    /\ means = Zeros
    /\ lengths = Zeros
    /\ po = IdleFrame
    /\ ret = [op |-> "init"]
    /\ hist = NoHistory
    /\ rng = SeededRng
    /\ pl = IdlePlay
    /\ caller = NoCaller

RandomNext ==
    \/ Start
    \/ RandomPlayOnceBegin
    \/ RandomPlayOnceRound
    \/ PlayOnceEnd

SpecRandom == RandomInit /\ [][RandomNext]_vars

\* play and reset, by a SimpleAgent over short lists or a RandomAgent over
\* the long one
PlayInit == Init \/ RandomInit

PlayNext ==
    \/ \E n \in 0..MaxPlays : PlayBegin(n)
    \/ PlayLoop
    \/ PlayOnceRound
    \/ RandomPlayOnceRound
    \/ PlayOnceEnd
    \/ PlayAppend
    \/ AgentReset

SpecPlay == PlayInit /\ [][PlayNext]_vars

\* two RandomAgents built with the same seed, the same word list and the
\* same oracle configuration, one after the other; the second is given the
\* calls the first was given
Mirrors(op) ==
    /\ Len(rng.ops) < MaxOps
    /\ rng.run = 2 =>
          /\ Len(rng.ops) < Len(rng.first_ops)
          /\ rng.first_ops[Len(rng.ops) + 1] = op

TwinStart == Mirrors("start") /\ Start

TwinPlayOnceBegin == Mirrors("play_once") /\ RandomPlayOnceBegin

TwinReset == Mirrors("reset") /\ AgentReset

\* Game(answers, words) and RandomAgent(game, seed=...) once more, with the
\* arguments of run 1
Rerun ==
    /\ rng.run = 1
    /\ po.pc \in {"idle", "raised"}
    /\ pl.pc = "idle"
    /\ index' = 0
    /\ word' = None
    /\ agent_words' \in Shuffled(words)
    /\ ranges' = NoRanges
    /\ means' = Zeros
    /\ lengths' = Zeros
    /\ po' = IdleFrame
    /\ ret' = [op |-> "init"]
    /\ hist' = NoHistory
    /\ rng' = [run |-> 2, seeded |-> TRUE, log |-> << >>, first |-> rng.log,
               twin |-> TRUE, ops |-> << >>, first_ops |-> rng.ops]
    /\ UNCHANGED <<answers, words, randomize, reward, pl, caller>>

TwinInit ==
    /\ randomize = FALSE
    /\ words = <<w_alert, w_clerk, w_mango>>
    /\ answers = <<w_alert, w_clerk>>
    /\ index = 0
    /\ word = None
    /\ agent_words \in Shuffled(words)
    /\ reward = DefaultReward
    /\ ranges = NoRanges
    /\ means = Zeros
    /\ lengths = Zeros
    /\ po = IdleFrame
    /\ ret = [op |-> "init"]
    /\ hist = NoHistory
    /\ rng = [SeededRng EXCEPT !.twin = TRUE]
    /\ pl = IdlePlay
    /\ caller = NoCaller

TwinNext ==
    \/ TwinStart
    \/ TwinPlayOnceBegin
    \/ RandomPlayOnceRound
    \/ PlayOnceEnd
    \/ TwinReset
    \/ Rerun

SpecTwin == TwinInit /\ [][TwinNext]_vars

\* the lists themselves: a caller's lists, a Game and an agent built from
\* them, and the agent's operations
AliasWords == {<<w_alert, w_clerk, w_blest>>}
AliasAnswers == {<<w_alert, w_clerk>>}
AliasOverrides == {<< >>, <<w_clerk, w_alert>>}

\* the guess handed to apply_guess called on its own, and the outcomes
\* handed over with it: the oracle's for alert, and the same with the signs
\* the other way round
AliasGuess == w_clerk
AliasOutcomes ==
    {ScoreLoop(w_alert, AliasGuess),
     [i \in Positions |-> -ScoreLoop(w_alert, AliasGuess)[i]]}

\* the caller's three lists, before any constructor ran
CallerLists(cw, ca, co) ==
    [built |-> "lists",
     h |-> [ref |-> [n \in Names |->
                       IF n = "c.words" THEN "caller.words"
                       ELSE IF n = "c.answers" THEN "caller.answers"
                       ELSE IF n = "c.override" THEN "caller.override"
                       ELSE Unbound],
            val |-> [x \in Sites |->
                       IF x = "caller.words" THEN cw
                       ELSE IF x = "caller.answers" THEN ca
                       ELSE IF x = "caller.override" THEN co
                       ELSE << >>]],
     given |-> [words |-> cw, answers |-> ca, override |-> co],
     over |-> FALSE,
     entry |-> << >>,
     in_after |-> << >>]

\* Game(answers=..., words=..., randomize=rand)
NewGame(rand) ==
    /\ caller.built = "lists"
    /\ LET h1 == Copy(caller.h, "g.words", "Game.words", "c.words")
           h2 == Copy(h1, "g.answers", "Game.answers", "c.answers")
       IN  \E sh \in (IF rand THEN Shuffled(Deref(h2, "g.answers"))
                              ELSE {Deref(h2, "g.answers")}) :
               /\ caller' = [caller EXCEPT !.built = "game",
                                            !.h = InPlace(h2, "g.answers", sh)]
               /\ words' = Deref(caller'.h, "g.words")
               /\ answers' = Deref(caller'.h, "g.answers")
    /\ randomize' = rand
    /\ index' = 0
    /\ word' = None
    /\ ret' = [op |-> "new_game"]
    /\ UNCHANGED <<agentVars, po, hist, rng, pl>>

\* SimpleAgent(game), or SimpleAgent(game, words) when over; an empty list
\* counts as no list (if words:)
NewAgent(over) ==
    /\ caller.built = "game"
    /\ LET given == over /\ Deref(caller.h, "c.override") # << >>
           h1 == Copy(caller.h, "a.words", "Agent.words",
                      IF given THEN "c.override" ELSE "g.words")
       IN  \E sh \in Shuffled(Deref(h1, "a.words")) :
               /\ caller' = [caller EXCEPT !.built = "agent", !.over = given,
                                            !.h = InPlace(h1, "a.words", sh)]
               /\ agent_words' = Deref(caller'.h, "a.words")
               /\ words' = Deref(caller'.h, "g.words")
               /\ answers' = Deref(caller'.h, "g.answers")
    /\ reward' = DefaultReward
    /\ ranges' = NoRanges
    /\ means' = Zeros
    /\ lengths' = Zeros
    /\ ret' = [op |-> "new_agent"]
    /\ UNCHANGED <<randomize, index, word, po, hist, rng, pl>>

\* apply_guess called on its own, after start_game, with one of the caller's
\* lists, the caller keeping the list it returns
AliasApplyGuess(src, guess, score) ==
    /\ caller.built = "agent"
    /\ po.pc = "idle"
    /\ ranges = StartGameState.ranges
    /\ \E ag \in {ApplyGuessResult(Tracker, Deref(caller.h, src), guess, score)} :
        /\ ranges' = ag.t.ranges
        /\ means' = ag.t.means
        /\ lengths' = ag.t.lengths
        /\ ret' = [op |-> "apply_guess", words_in |-> Deref(caller.h, src),
                   guess |-> guess, raised |-> ag.t.raised, val |-> ag.val]
        /\ hist' = [hist EXCEPT !.restart = FALSE,
                                 !.solved = @ \cup Solved(ag.t, guess, score),
                                 !.earlier = hist.solved,
                                 !.fit = @ /\ Fits(ranges, guess)]
        /\ caller' = IF ag.t.raised # "" THEN caller
                      ELSE LET r == HeapApplyGuess(caller.h, src, ag.val,
                                                   "c.returned", "caller.returned")
                           IN  [caller EXCEPT !.h = r.h, !.in_after = r.in_after]
        /\ UNCHANGED <<gameVars, agent_words, reward, po, rng, pl>>

AliasStart == caller.built = "agent" /\ Start

AliasPlayOnceBegin == caller.built = "agent" /\ PlayOnceBegin

\* reset(), once
AliasReset == caller.built = "agent" /\ hist.reset_at = -1 /\ AgentReset

AliasStartGame == caller.built = "agent" /\ StartGame

AliasInit ==
    /\ randomize = FALSE
    /\ words = << >>
    /\ answers = << >>
    /\ index = 0
    /\ word = None
    /\ agent_words = << >>
    /\ reward = DefaultReward
    /\ ranges = NoRanges
    /\ means = Zeros
    /\ lengths = Zeros
    /\ po = IdleFrame
    /\ ret = [op |-> "init"]
    /\ hist = NoHistory
    /\ rng = NoRng
    /\ pl = IdlePlay
    /\ \E cw \in AliasWords, ca \in AliasAnswers, co \in AliasOverrides :
          caller = CallerLists(cw, ca, co)

AliasNext ==
    \/ \E rand \in BOOLEAN : NewGame(rand)
    \/ \E over \in BOOLEAN : NewAgent(over)
    \/ AliasStart
    \/ AliasPlayOnceBegin
    \/ PlayOnceRound
    \/ PlayOnceEnd
    \/ AliasReset
    \/ AliasStartGame
    \/ \E src \in {"c.override", "a.words"}, score \in AliasOutcomes :
          AliasApplyGuess(src, AliasGuess, score)

SpecAlias == AliasInit /\ [][AliasNext]_vars

\* the oracle on its own, called in any order with any guess
GuessWords == Universe \cup {w_lint}

GameOnlyInit ==
    /\ GameInit(GuessWords)
    /\ agent_words = << >>
    /\ reward = DefaultReward
    /\ ranges = NoRanges
    /\ means = Zeros
    /\ lengths = Zeros
    /\ po = IdleFrame
    /\ ret = [op |-> "init"]
    /\ hist = NoHistory
    /\ rng = NoRng
    /\ pl = IdlePlay
    /\ caller = NoCaller

GameNext ==
    \/ Start
    \/ \E guess \in GuessWords : ScoreGuess(guess)
    \/ GameReset

SpecGame == GameOnlyInit /\ [][GameNext]_vars

\* the tracker on its own: start_game and apply_guess called in any order,
\* with any guess and any outcome
\* the outcomes the tracker is given: the three constant ones, what
\* score_guess returns for two words of the universe, and the opposite of that
Negated(score) == [i \in Positions |-> -score[i]]

Outcomes ==
    {[i \in Positions |-> v] : v \in {-1, 0, 1}}
    \cup {ScoreLoop(w, g) : w \in Universe, g \in Universe}
    \cup {Negated(ScoreLoop(w, g)) : w \in Universe, g \in Universe}

TrackerWords == <<w_clerk, w_alert, w_mango, w_clerk>>

TrackerGuesses == {w_alert, w_clerk}

TrackerInit ==
    /\ randomize = FALSE
    /\ words = TrackerWords
    /\ answers = << >>
    /\ index = 0
    /\ word = None
    /\ AgentInit
    /\ po = IdleFrame
    /\ ret = [op |-> "init"]
    /\ hist = NoHistory
    /\ rng = NoRng
    /\ pl = IdlePlay
    /\ caller = NoCaller

\* the lists a caller has at hand: the agent's list, or the list the
\* previous apply_guess returned
ListsAtHand ==
    {agent_words} \cup
    (IF ret.op = "apply_guess" /\ ret.raised = "" THEN {ret.val} ELSE {})

TrackerNext ==
    \/ StartGame
    \/ \E words_in \in ListsAtHand, guess \in TrackerGuesses, score \in Outcomes :
          ApplyGuess(words_in, guess, score)

SpecTracker == TrackerInit /\ [][TrackerNext]_vars

\* select_guess on its own, on any list, in any state of the tracker
SelectWords == {w_alert, w_blest, w_might, w_night}

SelectInit ==
    /\ randomize = FALSE
    /\ words = <<w_alert, w_blest, w_might, w_night>>
    /\ answers = << >>
    /\ index = 0
    /\ word = None
    /\ agent_words = <<w_night, w_alert, w_might, w_blest>>
    /\ reward = DefaultReward
    /\ ranges = NoRanges
    /\ means = Zeros
    /\ lengths = Zeros
    /\ po = IdleFrame
    /\ ret = [op |-> "init"]
    /\ hist = NoHistory
    /\ rng = NoRng
    /\ pl = IdlePlay
    /\ caller = NoCaller

\* the outcomes score_guess returns for the guess might
SelectOutcomes == {ScoreLoop(w, w_might) : w \in SelectWords}

SelectNext ==
    \/ StartGame
    \/ \E score \in SelectOutcomes : ApplyGuess(agent_words, w_might, score)
    \/ \E guesses \in SeqsUpTo(SelectWords, MaxWords) : SelectGuess(guesses)

SpecSelect == SelectInit /\ [][SelectNext]_vars

-----------------------------------------------------------------------------
(* The oracle: score_guess and start (checked under SpecGame) *)

Returned(op) == ret.op = op /\ ret.raised = ""

\* the outcome the documented convention gives one position: -0.5 (-1) when
\* the guess letter is below the word's letter, 0.5 (1) when it is above
Documented(c, g) == IF g < c THEN -1 ELSE IF g > c THEN 1 ELSE 0

(* C1: score_guess returns 5 elements, element i being -0.5 when the guess  *)
(* letter at i is below the secret word's letter, 0.0 when they are equal   *)
(* and 0.5 when it is above: the convention apply_guess reads the outcome   *)
(* with.                                                                    *)
C1_OutcomeSigns ==
    Returned("score_guess") =>
        /\ Len(ret.val) = WordLen
        /\ \A i \in Positions : ret.val[i] = Documented(ret.secret[i], ret.guess[i])

(* C8: score_guess raises, and leaves index, word, answers and words as     *)
(* they were, whenever there is no active word, or the guess is not 5       *)
(* letters long, or the guess is not in the allowed list; it returns an     *)
(* outcome only when none of the three holds.                               *)
C8_ScoreGuessErrors ==
    [][ret'.op = "score_guess" =>
          LET bad == \/ word = None
                     \/ Len(ret'.guess) # WordLen
                     \/ ret'.guess \notin SeqSet(words)
          IN  /\ bad => /\ ret'.raised # ""
                        /\ UNCHANGED <<index, word, answers, words>>
              /\ ret'.raised = "" => ~bad]_vars

C8_Witness ==
    /\ ret.op = "score_guess"
    /\ ret.raised = "not an allowed guess"
    /\ word # None
    /\ index = 1

(* C9: score_guess clears the active word exactly when the outcome it       *)
(* returns is all "correct", which is exactly when the guess is the secret  *)
(* word; after any other outcome the word stays active; the index is never  *)
(* changed; with no active word every score_guess raises, and only a start  *)
(* that returns True activates a word again.                                *)
C9_ClearsIffCorrect ==
    /\ [][(ret'.op = "score_guess" /\ ret'.raised = "") =>
             /\ AllCorrect(ret'.val) <=> ret'.guess = word
             /\ word' = IF ret'.guess = word THEN None ELSE word
             /\ index' = index]_vars
    /\ [][(ret'.op = "score_guess" /\ word = None) =>
             ret'.raised # "" /\ word' = None]_vars
    /\ [][(word = None /\ word' # None) =>
             ret'.op = "start" /\ ret'.val = TRUE]_vars

C9_Witness ==
    /\ Returned("score_guess")
    /\ AllCorrect(ret.val)
    /\ ret.guess = ret.secret
    /\ word = None
    /\ index >= 1

(* C10: with k answers, a start() made while index < k returns True,        *)
(* activates answers[index] and adds one to the index (so the j-th start    *)
(* after construction or reset sets the index to j), whatever score_guess   *)
(* calls came between; a start() made with index = k returns False and      *)
(* leaves index and word alone; except by reset the index never decreases,  *)
(* and it never exceeds k.                                                  *)
C10_StartSequence ==
    /\ [][ret'.op = "start" =>
             IF index < Len(answers)
             THEN /\ ret'.val = TRUE
                  /\ index' = index + 1
                  /\ word' = answers[index + 1]
             ELSE /\ ret'.val = FALSE
                  /\ UNCHANGED <<index, word>>]_vars
    /\ [][ret'.op = "score_guess" => index' = index]_vars
    /\ [][ret'.op # "reset" => index' >= index]_vars
    /\ [](index \in 0..Len(answers))
    /\ [](ret.op \in {"init", "reset"} => index = 0)

C10_Witness ==
    /\ ret.op = "start"
    /\ ret.val = FALSE
    /\ index = Len(answers)
    /\ index >= 2
    /\ word = answers[index]

(* C11: reset(), in whatever state it is called, sets the index to 0 and    *)
(* the active word to none and leaves the allowed list alone; the answers   *)
(* after it are a permutation of the answers before it (the same list when  *)
(* randomize is false), and no other call changes the answers, so they stay *)
(* a permutation of the configured ones; the starts that follow a reset     *)
(* activate answers[0], answers[1], ... in turn, and when start returns     *)
(* False every answer has been activated exactly once.                      *)
C11_ResetRestores ==
    /\ [][ret'.op = "reset" =>
             /\ index' = 0
             /\ word' = None
             /\ words' = words
             /\ answers' \in Shuffles(answers)
             /\ (~randomize => answers' = answers)]_vars
    /\ [][ret'.op # "reset" => answers' = answers]_vars
    /\ [](hist.reset_at >= 0 => hist.activated = SubSeq(answers, 1, index))
    /\ []((hist.reset_at >= 0 /\ ret.op = "start" /\ ret.val = FALSE) =>
             hist.activated = answers)

C11_Witness ==
    /\ hist.reset_at >= 1
    /\ randomize
    /\ ret.op = "start"
    /\ ret.val = FALSE
    /\ Len(answers) = 2
    /\ answers[1] # answers[2]
    /\ hist.activated = answers

-----------------------------------------------------------------------------
(* The agent playing (checked under Spec) *)

\* a game is being played for a secret word the agent's list holds
PlayingKnownWord ==
    /\ po.pc # "idle"
    /\ word # None
    /\ word \in SeqSet(agent_words)

(* C2: while play_once plays a secret word that is in the agent's list,     *)
(* after every apply_guess each position's range still holds the secret     *)
(* word's letter and the candidate pool still holds the secret word.        *)
C2_TrackingSound ==
    (PlayingKnownWord /\ Returned("apply_guess")) =>
        /\ \A i \in Positions : word[i] \in SeqSet(ranges[i])
        /\ word \in SeqSet(po.words)

(* C3: play_once against a secret word of the agent's list ends in success  *)
(* within 6 rounds: it does not raise, and what it returns has result 1,    *)
(* at most 6 guesses, and a score holding the reward once.  (A lost game    *)
(* leaves the secret word active, a won one clears it.)                     *)
C3_PlayOnceWins ==
    /\ PlayingKnownWord => po.pc # "raised"
    /\ (Returned("play_once") /\ word # None /\ word \in SeqSet(agent_words)) =>
           ret.val.result = 1
    /\ (Returned("play_once") /\ ret.val.result = 1) =>
           /\ Len(ret.val.guesses) <= Rounds
           /\ ret.val.word = ret.val.guesses[Len(ret.val.guesses)][1]
           /\ ret.val.score =
                 SumSeq([k \in 1..Len(ret.val.guesses) |-> ret.val.guesses[k][2]])
                 + reward

\* the codes of r are consecutive
Contiguous(r) == \A k \in 1..(Len(r) - 1) : r[k + 1] = r[k] + 1

(* C4: in every state inside a game each of the 5 ranges is a non-empty run *)
(* of consecutive letter codes, its cardinality and mean are those of the   *)
(* range, and nothing raised for lack of them.                              *)
C4_RangesNonEmpty ==
    hist.started =>
        \A i \in Positions :
            /\ ranges[i] # << >>
            /\ Contiguous(ranges[i])
            /\ lengths[i] = Len(ranges[i])

-----------------------------------------------------------------------------
(* play_once with either selector (checked under SpecRandom) *)

\* the word the last successful start() activated
Secret == hist.activated[Len(hist.activated)]

(* C12: a game never holds more than 6 guesses; when play_once returns, the *)
(* guesses and the responses are equally many, between 1 and 6; result is 1 *)
(* exactly when the last response is all "correct", and no earlier response *)
(* is; then the recorded word is the last guess and the oracle has no       *)
(* active word; otherwise there are exactly 6 guesses, result is 0, and the *)
(* recorded word is the oracle's secret word, which is still active.        *)
C12_PlayOnceBounds ==
    /\ Len(po.result.guesses) <= Rounds
    /\ Len(po.result.responses) <= Rounds
    /\ Returned("play_once") =>
          LET v == ret.val
              n == Len(v.guesses)
          IN  /\ n = Len(v.responses)
              /\ n \in 1..Rounds
              /\ v.result \in {0, 1}
              /\ v.result = 1 <=> AllCorrect(v.responses[n])
              /\ \A k \in 1..(n - 1) : ~AllCorrect(v.responses[k])
              /\ IF v.result = 1
                 THEN /\ v.word = v.guesses[n][1]
                      /\ word = None
                 ELSE /\ n = Rounds
                      /\ hist.activated # << >>
                      /\ v.word = Secret
                      /\ word = Secret

C12_Witness ==
    /\ Returned("play_once")
    /\ ret.val.result = 0
    /\ Len(ret.val.guesses) = Rounds
    /\ ret.val.word = w_eight
    /\ word = w_eight

-----------------------------------------------------------------------------
(* play (checked under SpecPlay) *)

Min(a, b) == IF a < b THEN a ELSE b

\* play was called on a fresh or reset oracle that has answers, each of them
\* a word of the agent's list
FreshPlay ==
    /\ hist.play_from = 0
    /\ Len(answers) >= 1
    /\ SeqSet(answers) \subseteq SeqSet(agent_words)

\* an exception of play_once is on its way out of play, or play itself raised
PlayRaises == pl.pc = "raised" \/ (pl.pc = "game" /\ po.pc = "raised")

\* what play returned is the aggregate of the games of answers[0..count-1]
PlayAggregates ==
    LET v == ret.val
        k == Len(answers)
    IN  /\ v.count = (IF ret.n = 0 THEN k ELSE Min(ret.n, k))
        /\ v.count = Len(v.history)
        /\ \A j \in 1..v.count :
              /\ v.history[j].word = answers[j]
              /\ \A r \in 1..Len(v.history[j].guesses) :
                    v.history[j].responses[r] =
                        ScoreLoop(answers[j], v.history[j].guesses[r][1])
        /\ v.result = Quotient(SumSeq([j \in 1..v.count |-> v.history[j].result]),
                               v.count)
        /\ v.guess_avg =
              Quotient(SumSeq([j \in 1..v.count |-> Len(v.history[j].guesses)]),
                       v.count)
        /\ v.score_avg = Quotient(SumSeq([j \in 1..v.count |-> v.history[j].score]),
                                  v.count)

(* C13: play(n) on a fresh or reset oracle with k >= 1 answers plays the    *)
(* answers in the oracle's order and returns: it does not raise, and what   *)
(* it returns has count k when n is 0 and min(n, k) otherwise, history[j]   *)
(* the game of answers[j], and result, guess_avg and score_avg the means    *)
(* over the history of the success flags, the numbers of guesses and the    *)
(* scores.                                                                  *)
C13_PlayReturnsAggregates ==
    FreshPlay =>
        /\ ~PlayRaises
        /\ Returned("play") => PlayAggregates

\* the part of C13 that holds of the code: whenever such a play returns, what
\* it returns is that aggregate
C13_WhenPlayReturns ==
    (FreshPlay /\ Returned("play")) => PlayAggregates

C13_SomePlayReturns ==
    /\ FreshPlay
    /\ Returned("play")
    /\ ret.val.count = 3
    /\ ret.val.history[1].result = 0
    /\ ret.val.history[2].result = 1
    /\ ret.val.history[3].result = 0

-----------------------------------------------------------------------------
(* select_guess (checked under SpecSelect) *)

\* the first place of the list that holds a word as good as w, by f(v, w)
FirstLike(guesses, w, f(_, _)) ==
    CHOOSE k \in 1..Len(guesses) :
        /\ f(guesses[k], w)
        /\ \A j \in 1..(k - 1) : ~f(guesses[j], w)

SameScore(v, w) == Distance(Tracker, v) = Distance(Tracker, w)

SameFloats(v, w) == SameTerms(Tracker, v, w)

\* the word returned has the greatest score of the list
BestScore ==
    \A j \in 1..Len(ret.guesses) :
        Distance(Tracker, ret.val) <= Distance(Tracker, ret.guesses[j])

(* C14, as claimed: select_guess on a non-empty list returns a word whose    *)
(* score -sum |means[i] - code(word[i])| / lengths[i] is the greatest of the *)
(* list, and of the words that share that score the one that comes first in *)
(* the list; the list is not modified.                                      *)
C14_FirstOfBestScore ==
    Returned("select_guess") =>
        /\ BestScore
        /\ ret.val = ret.guesses[FirstLike(ret.guesses, ret.val, SameScore)]
        /\ ret.after = ret.guesses

(* C14, amended: select_guess on a non-empty list returns a word whose score *)
(* is the greatest of the list, and of the words that have, position by     *)
(* position, the same distance |means[i] - code(word[i])| as the word       *)
(* returned (its duplicates among them) the one that comes first; the list  *)
(* is not modified.                                                         *)
C14_FirstOfSameTerms ==
    Returned("select_guess") =>
        /\ BestScore
        /\ ret.val = ret.guesses[FirstLike(ret.guesses, ret.val, SameFloats)]
        /\ ret.after = ret.guesses

C14_Witness ==
    /\ Returned("select_guess")
    /\ hist.started
    /\ Len(ret.guesses) = 3
    /\ ret.val = ret.guesses[2]
    /\ ret.guesses[3] # ret.val
    /\ SameFloats(ret.guesses[3], ret.val)
    /\ ~SameScore(ret.guesses[1], ret.val)

-----------------------------------------------------------------------------
(* RandomAgent with a seed (checked under SpecTwin) *)

(* C15: two RandomAgents built with the same seed, the same word list and   *)
(* the same oracle configuration, and given the same calls (reset           *)
(* included), guess the same words in the same order.                       *)
C15_SameSeedSameGuesses ==
    rng.run = 2 =>
        \A k \in 1..Min(Len(rng.log), Len(rng.first)) :
            rng.log[k].guess = rng.first[k].guess

-----------------------------------------------------------------------------
(* The outcome as a relation between two words (checked under SpecGame) *)

(* C16: for 5-letter allowed words w and g, the outcome score_guess returns *)
(* for the guess g while w is the active word is, position by position, the *)
(* negation of the outcome of the guess w against the word g, and a word    *)
(* scored against itself is "correct" at every position.                    *)
C16_Antisymmetric ==
    (Returned("score_guess") /\ Len(ret.secret) = WordLen) =>
        /\ \A i \in Positions :
              ret.val[i] = -ScoreLoop(ret.guess, ret.secret)[i]
        /\ ret.guess = ret.secret => \A i \in Positions : ret.val[i] = 0

C16_Witness ==
    /\ Returned("score_guess")
    /\ Len(ret.secret) = WordLen
    /\ ret.guess # ret.secret
    /\ \E i \in Positions : ret.val[i] = 1
    /\ \E i \in Positions : ret.val[i] = -1
    /\ \E i \in Positions : ret.val[i] = 0

C16_SelfWitness ==
    /\ Returned("score_guess")
    /\ Len(ret.secret) = WordLen
    /\ ret.guess = ret.secret

-----------------------------------------------------------------------------
(* The score play_once keeps (checked under SpecRandom) *)

\* the positions of an outcome that are not "correct"
NonCorrect(raw) == Cardinality({i \in 1..Len(raw) : raw[i] # 0})

\* the sum of the score-sums recorded with the guesses
RecordedTotal(r) == SumSeq([k \in 1..Len(r.guesses) |-> r.guesses[k][2]])

(* C17: whenever play_once returns, each recorded (guess, score-sum) has a  *)
(* score-sum of -0.5 (here -1) times the number of positions of that        *)
(* guess's response that are not "correct", and the cumulative score is the *)
(* sum of the recorded score-sums, plus the configured reward when result   *)
(* is 1 and plus nothing when result is 0.                                  *)
C17_ScoreAccounting ==
    Returned("play_once") =>
        LET r == ret.val
        IN  /\ Len(r.responses) = Len(r.guesses)
            /\ \A k \in 1..Len(r.guesses) :
                  r.guesses[k][2] = -NonCorrect(r.responses[k])
            /\ r.result \in {0, 1}
            /\ r.score = RecordedTotal(r) + (IF r.result = 1 THEN reward ELSE 0)

C17_Witness ==
    /\ Returned("play_once")
    /\ ret.val.result = 0
    /\ Len(ret.val.guesses) = Rounds
    /\ ret.val.score = -2 * Rounds
    /\ \A k \in 1..Rounds : ret.val.guesses[k][2] = -2

C17_WinWitness ==
    /\ Returned("play_once")
    /\ ret.val.result = 1
    /\ ret.val.score = reward
    /\ reward > 0

-----------------------------------------------------------------------------
(* The guesses play_once hands to the oracle (checked under SpecRandom) *)

Occurrences(s, w) == Cardinality({i \in 1..Len(s) : s[i] = w})

\* the agent's list is the oracle's allowed list in some order: the agent was
\* built without a list of its own
NoOverride ==
    /\ Len(agent_words) = Len(words)
    /\ \A w \in SeqSet(words) \cup SeqSet(agent_words) :
          Occurrences(agent_words, w) = Occurrences(words, w)

\* play_once is running, and was entered while a word was active
InStartedGame == po.pc # "idle" /\ hist.entry # None

(* C18: in a play_once entered after a successful start(), by an agent      *)
(* built without a list of its own over 5-letter words, the oracle has an   *)
(* active word before each guess, every word the selection can hand to      *)
(* score_guess is in the candidate pool, the agent's list and the allowed   *)
(* list and passes the checks of score_guess, and score_guess has not       *)
(* raised.                                                                  *)
C18_GuessesAreValid ==
    (InStartedGame /\ NoOverride) =>
        /\ po.pc = "loop" =>
              /\ word = hist.entry
              /\ \A w \in SeqSet(po.words) :
                    /\ w \in SeqSet(agent_words)
                    /\ w \in SeqSet(words)
                    /\ ScoreGuessError(word, words, w) = ""
        /\ ret.op = "score_guess" => ret.raised = ""
        /\ ret.op = "apply_guess" =>
              /\ ret.guess \in SeqSet(ret.words_in)
              /\ ret.guess \in SeqSet(words)

C18_Witness ==
    /\ InStartedGame
    /\ NoOverride
    /\ po.pc = "loop"
    /\ po.round = Rounds - 1
    /\ ret.op = "apply_guess"
    /\ po.words # << >>

-----------------------------------------------------------------------------
(* The lists as objects (checked under SpecAlias) *)

\* the program's variables hold what the heap holds
HeapAgrees ==
    caller.built = "agent" =>
        /\ words = Deref(caller.h, "g.words")
        /\ answers = Deref(caller.h, "g.answers")
        /\ agent_words = Deref(caller.h, "a.words")
        /\ po.pc = "loop" => po.words = Deref(caller.h, "po.words")

(* C19: the caller's answers and words lists and the list handed to an      *)
(* agent keep their content and order through the construction of the Game  *)
(* and of the agent and through every operation of the agent; Game.words    *)
(* keeps the content and order it was built with; play_once leaves the      *)
(* agent's own list as it was when it was entered; and the list handed to   *)
(* apply_guess is, when apply_guess returns, what it was when handed over.  *)
C19_ListsUnchanged ==
    caller.built # "none" =>
        /\ Deref(caller.h, "c.words") = caller.given.words
        /\ Deref(caller.h, "c.answers") = caller.given.answers
        /\ Deref(caller.h, "c.override") = caller.given.override
        /\ caller.built \in {"game", "agent"} =>
              Deref(caller.h, "g.words") = caller.given.words
        /\ (po.pc # "idle" \/ Returned("play_once")) =>
              Deref(caller.h, "a.words") = caller.entry
        /\ Returned("apply_guess") => caller.in_after = ret.words_in

C19_Witness ==
    /\ caller.built = "agent"
    /\ caller.over
    /\ randomize
    /\ po.pc = "loop"
    /\ po.round >= 1
    /\ Deref(caller.h, "a.words") # caller.given.override
    /\ Deref(caller.h, "g.answers") # caller.given.answers
    /\ hist.reset_at >= 0

C19_ApplyGuessWitness ==
    /\ caller.built = "agent"
    /\ Returned("apply_guess")
    /\ po.pc = "idle"
    /\ ret.val # ret.words_in
    /\ ret.val # << >>
    /\ Deref(caller.h, "c.returned") = ret.val

-----------------------------------------------------------------------------
(* The candidates of a game (checked under Spec) *)

(* C20: whenever play_once is about to call select_guess, in a game entered *)
(* with an active word that is in the agent's list, the candidate list it   *)
(* passes is not empty.                                                     *)
C20_CandidatesRemain ==
    (po.pc = "loop" /\ hist.entry # None /\ hist.entry \in SeqSet(agent_words)) =>
        po.words # << >>

-----------------------------------------------------------------------------
(* The answers play consumes (checked under SpecPlay) *)

(* C21: when play(n) returns, with 0 < n < the number of answers that were  *)
(* left when it was called, the oracle's index has advanced by exactly n.   *)
C21_PlayConsumesWhatItPlays ==
    (/\ Returned("play")
     /\ hist.play_from >= 0
     /\ 0 < ret.n
     /\ ret.n < Len(answers) - hist.play_from) =>
        index = hist.play_from + ret.n

(* C22: a play() called when the oracle has no answer left to start (an     *)
(* empty answers list, or every answer consumed and no reset) completes     *)
(* without raising and returns count 0 and an empty history.                *)
C22_PlayOnExhaustedOracle ==
    (ret.op = "play" /\ hist.play_from = Len(answers)) =>
        /\ ret.raised = ""
        /\ ret.val.count = 0
        /\ ret.val.history = << >>

-----------------------------------------------------------------------------
(* The tracker: start_game and apply_guess (checked under SpecTracker) *)

Shrinks == \A i \in Positions : SeqSet(ranges'[i]) \subseteq SeqSet(ranges[i])

(* C5, as claimed: for every apply_guess after start_game, with any guess   *)
(* and any outcome, every range after the call is a subset of the range     *)
(* before it, and a position that was given "correct" before has a range of *)
(* exactly one letter after the call.                                       *)
C5_AnyGuessShrinks ==
    [][(hist.started /\ ret'.op = "apply_guess") =>
          /\ Shrinks
          /\ \A i \in hist.solved : Len(ranges'[i]) = 1]_vars

(* C5, amended: for every apply_guess after start_game, when its guess and  *)
(* the guess of every earlier call since start_game had each letter inside  *)
(* its position's range, with any outcome, every range after the call is a  *)
(* subset of the range before it; and when the call returns, every position *)
(* given "correct" by it or by an earlier call has a range of exactly one   *)
(* letter.                                                                  *)
C5_FittingGuessShrinks ==
    [][(hist.started /\ ret'.op = "apply_guess" /\ hist'.fit) =>
          /\ Shrinks
          /\ ret'.raised = "" => \A i \in hist'.solved : Len(ranges'[i]) = 1]_vars

C5_Witness ==
    /\ hist.started
    /\ Returned("apply_guess")
    /\ hist.fit
    /\ hist.earlier # {}
    /\ \A i \in hist.earlier : Len(ranges[i]) = 1
    /\ \E j \in Positions : Len(ranges[j]) \in 2..25

\* w has 5 letters, each inside its position's range
InRanges(w) == Len(w) = WordLen /\ \A i \in Positions : w[i] \in SeqSet(ranges[i])

KeepFitting(ws, guess) == SelectSeq(ws, LAMBDA w : w # guess /\ InRanges(w))

(* C6: the list apply_guess returns never holds the guess, never holds a    *)
(* word with a letter outside its position's updated range, and is exactly  *)
(* the words of words_in, in their order, that are not the guess and lie    *)
(* within the updated ranges.                                               *)
C6_ReturnedList ==
    (hist.started /\ Returned("apply_guess")) =>
        /\ ret.guess \notin SeqSet(ret.val)
        /\ \A w \in SeqSet(ret.val) : InRanges(w)
        /\ ret.val = KeepFitting(ret.words_in, ret.guess)

(* C7: start_game, in whatever state it is called, leaves every range the   *)
(* 26 letters a..z, every cardinality 26 and every mean the midpoint 109.5  *)
(* (doubled: 219).                                                          *)
C7_StartGameResets ==
    ret.op = "start_game" =>
        \A i \in Positions :
            /\ Len(ranges[i]) = 26
            /\ SeqSet(ranges[i]) = OrdA..OrdZ
            /\ Contiguous(ranges[i])
            /\ lengths[i] = 26
            /\ means[i] = OrdA + OrdZ

C7_Witness ==
    /\ ret.op = "start_game"
    /\ hist.restart
    /\ \A i \in Positions : ranges[i] = ALL_LETTERS /\ lengths[i] = 26

=============================================================================
